---- MODULE Spec2Model ----
(***************************************************************************)
(* Resume-to-job matching of 04_module/app (tools.py and ai_agent.py).     *)
(*                                                                         *)
(* Text is a sequence of one-character strings, so that lower(), strip(),  *)
(* slicing and the substring test  `skill in job_text`  are computed the   *)
(* way Python computes them.  A cell of the postings table is a record     *)
(* [kind, s]: kind "str" (a string s), "NaN" (the cell is missing: NaN or  *)
(* None) or "absent" (the table has no such column).                       *)
(***************************************************************************)
EXTENDS Integers, Sequences, FiniteSets, TLC

VARIABLES
    jobs_df,    \* the postings table: a sequence of rows
    skills,     \* the skills argument: a sequence of texts
    top_n,      \* the top_n argument of the last find_alternative_matches call
    op,         \* the operation that returned ("none" before the call)
    ret,        \* what it returned (a record), or that it raised
    scored,     \* the score_info of each calculate_job_score call it made
    resume_text, \* the resume_text argument
    service,    \* what agent.run_sync does when called: [output |-> text] or
                \* [error |-> message]
    calls,      \* how many times agent.run_sync was called
    kernelapp,  \* the file kernelapp.py of FixJupyterKernelWin.py
    backup,     \* the file kernelapp.bak
    original,   \* kernelapp.py as it was before the first run of main()
    runs,       \* how many times main() has run
    is_running, \* StartStreamlitAppBtn.is_running
    port,       \* StartStreamlitAppBtn.port
    alive,      \* how many Streamlit processes of the app are alive
    log,        \* the file app/logs/<app_name>.log
    report,     \* what the last callback wrote to the output widget
    launches,   \* how many times the launch command was issued
    last_start  \* the last Start click: is_running and alive when it was made,
                \* and whether it issued the launch command

request_vars ==
    <<jobs_df, skills, top_n, op, ret, scored, resume_text, service, calls>>

kernel_vars == <<kernelapp, backup, original, runs>>

widget_vars == <<is_running, port, alive, log, report, launches, last_start>>

vars == <<request_vars, kernel_vars, widget_vars>>

\* a file that does not exist, and a file holding the given lines
NoFile == [exists |-> FALSE, lines |-> <<>>]
File(lines) == [exists |-> TRUE, lines |-> lines]

\* self.port = None, kept as the number 0 (which `if port:` treats alike)
NoPort == 0

\* a log file: url is the port of its 'Local URL' line, NoPort without one
NoLog == [exists |-> FALSE, url |-> NoPort]
Log(url) == [exists |-> TRUE, url |-> url]

NoStart ==
    [clicked |-> FALSE, launched |-> FALSE, is_running |-> FALSE, alive |-> 0]

\* the patch script and the notebook widgets take no part in a behaviour
KernelUnused ==
    /\ kernelapp = NoFile
    /\ backup = NoFile
    /\ original = NoFile
    /\ runs = 0

WidgetUnused ==
    /\ is_running = FALSE
    /\ port = NoPort
    /\ alive = 0
    /\ log = NoLog
    /\ report = "none"
    /\ launches = 0
    /\ last_start = NoStart

---------------------------------------------------------------------------
(* Python str primitives *)

UpperAlpha ==
    <<"A","B","C","D","E","F","G","H","I","J","K","L","M",
      "N","O","P","Q","R","S","T","U","V","W","X","Y","Z">>

LowerAlpha ==
    <<"a","b","c","d","e","f","g","h","i","j","k","l","m",
      "n","o","p","q","r","s","t","u","v","w","x","y","z">>

Whitespace == {" ", "\t", "\n", "\r"}

UpperLetters == {UpperAlpha[i] : i \in 1..26}

\* the lower-case letter of each upper-case letter
UpperToLower ==
    [c \in UpperLetters |-> LowerAlpha[CHOOSE i \in 1..26 : UpperAlpha[i] = c]]

LowerChar(c) == IF c \in UpperLetters THEN UpperToLower[c] ELSE c

\* str.lower()
Lower(s) == [i \in 1..Len(s) |-> LowerChar(s[i])]

\* str.strip(): without its leading and trailing whitespace
Strip(s) ==
    IF \A i \in 1..Len(s) : s[i] \in Whitespace THEN <<>>
    ELSE LET lo == CHOOSE i \in 1..Len(s) :
                       /\ s[i] \notin Whitespace
                       /\ \A j \in 1..(i - 1) : s[j] \in Whitespace
             hi == CHOOSE i \in 1..Len(s) :
                       /\ s[i] \notin Whitespace
                       /\ \A j \in (i + 1)..Len(s) : s[j] \in Whitespace
         IN  SubSeq(s, lo, hi)

\* not s.strip(): s is empty or all whitespace
Blank(s) == \A i \in 1..Len(s) : s[i] \in Whitespace

\* x in t, for strings: x is a substring of t
Contains(t, x) ==
    \E i \in 0..(Len(t) - Len(x)) :
        \A k \in 1..Len(x) : t[i + k] = x[k]

\* s[:n] for n >= 0
Slice(s, n) == SubSeq(s, 1, IF Len(s) < n THEN Len(s) ELSE n)

\* x in list
InList(x, list) == \E i \in 1..Len(list) : list[i] = x

---------------------------------------------------------------------------
(* Cells of the postings table *)

Str(s) == [kind |-> "str", s |-> s]
NaN == [kind |-> "NaN", s |-> <<>>]
Absent == [kind |-> "absent", s |-> <<>>]

\* pd.notna(job.get(column)): job.get gives None for a column the table lacks
notna(cell) == cell.kind = "str"

---------------------------------------------------------------------------
(* calculate_job_score, tools.py 138-183 *)

s_python == <<"p","y","t","h","o","n">>
s_javascript == <<"j","a","v","a","s","c","r","i","p","t">>
s_java == <<"j","a","v","a">>
s_react == <<"r","e","a","c","t">>
s_django == <<"d","j","a","n","g","o">>

HighValueSkills == <<s_python, s_javascript, s_java, s_react, s_django>>

ShortSkillLen == 3
ShortSkillPoints == 2
HighValuePoints == 3
StandardPoints == 1
BonusAt3 == 3
BonusAt5 == 5
Bonus3Points == 2
Bonus5Points == 3

\* job_text: the lower-cased title and description, each followed by a space
JobText(job) ==
    (IF notna(job.job_title) THEN Lower(job.job_title.s) \o <<" ">> ELSE <<>>)
    \o
    (IF notna(job.job_description)
     THEN Lower(job.job_description.s) \o <<" ">> ELSE <<>>)

SkillPoints_mut_lt(skill) ==
    IF Len(skill) < ShortSkillLen THEN ShortSkillPoints
    ELSE IF InList(skill, HighValueSkills) THEN HighValuePoints
    ELSE StandardPoints

\* the weight of one matched skill: the length test comes first
SkillPoints(skill) ==
    IF Len(skill) <= ShortSkillLen THEN ShortSkillPoints
    ELSE IF InList(skill, HighValueSkills) THEN HighValuePoints
    ELSE StandardPoints

MatchBonus_mut_assign(matched_skills, score) ==
    IF Len(matched_skills) >= BonusAt5 THEN Bonus5Points
    ELSE IF Len(matched_skills) >= BonusAt3 THEN Bonus3Points
    ELSE score

\* the score with the bonus for multiple matches added
MatchBonus(matched_skills, score) ==
    LET s3 == IF Len(matched_skills) >= BonusAt3 THEN score + Bonus3Points
              ELSE score
    IN  IF Len(matched_skills) >= BonusAt5 THEN s3 + Bonus5Points ELSE s3

\* the loop over skills: the state (matched_skills, score) after skills[1..n]
RECURSIVE ScoreLoop(_, _, _)
ScoreLoop(job_text, skill_list, n) ==
    IF n = 0 THEN [score |-> 0, matched_skills |-> <<>>]
    ELSE LET acc == ScoreLoop(job_text, skill_list, n - 1)
             skill == skill_list[n]
         IN  IF Contains(job_text, skill)
             THEN [score |-> acc.score + SkillPoints(skill),
                   matched_skills |-> Append(acc.matched_skills, skill)]
             ELSE acc

calculate_job_score(job, skill_list) ==
    LET job_text == JobText(job)
    IN  IF Blank(job_text)
        THEN [score |-> 0, matched_skills |-> <<>>]
        ELSE LET acc == ScoreLoop(job_text, skill_list, Len(skill_list))
             IN  [score |-> MatchBonus(acc.matched_skills, acc.score),
                  matched_skills |-> acc.matched_skills]

\* ai_agent.py 281-325: the same statements as tools.py 138-183
agent_calculate_job_score(job, skill_list) ==
    calculate_job_score(job, skill_list)

---------------------------------------------------------------------------
(* find_best_job_match and find_alternative_matches, tools.py *)

\* a call that raised instead of returning
Raised(exc) == [raised |-> exc]

EmptyInput_mut_and(skill_list, jobs) == Len(jobs) = 0 /\ Len(skill_list) = 0

\* jobs_df.empty or not skills
EmptyInput(skill_list, jobs) == Len(jobs) = 0 \/ Len(skill_list) = 0

NoJobsRecord ==
    [error |-> "No jobs available or no skills provided",
     job_title |-> "No match found", company_name |-> "N/A",
     location |-> "N/A", match_score |-> 0, matched_skills |-> <<>>]

NoMatchRecord ==
    [error |-> "No matching jobs found",
     job_title |-> "No suitable matches", company_name |-> "N/A",
     location |-> "N/A", match_score |-> 0, matched_skills |-> <<>>]

NotSpecified == <<"N","o","t"," ","s","p","e","c","i","f","i","e","d">>
Ellipsis == <<".", ".", ".">>
DescriptionChars == 300

\* job.get(column, default): the default only for a column the table lacks
Get(cell, default) == IF cell.kind = "absent" THEN Str(default) ELSE cell

SortedPositions_mut_unstable(keys, n) ==
    LET RECURSIVE Go(_)
        Go(m) ==
            IF m = 0 THEN <<>>
            ELSE LET prev == Go(m - 1)
                     k == Cardinality({i \in 1..Len(prev) : keys[prev[i]] > keys[m]})
                 IN  SubSeq(prev, 1, k) \o <<m>> \o SubSeq(prev, k + 1, Len(prev))
    IN  Go(n)

\* list.sort(key=..., reverse=True) on keys[1..n]: the positions in the order
\* the sort leaves them, key descending, equal keys in their original order
\* (the sort is stable, also with reverse=True)
RECURSIVE SortedPositions(_, _)
SortedPositions(keys, n) ==
    IF n = 0 THEN <<>>
    ELSE LET prev == SortedPositions(keys, n - 1)
             k == Cardinality({i \in 1..Len(prev) : keys[prev[i]] >= keys[n]})
         IN  SubSeq(prev, 1, k) \o <<n>> \o SubSeq(prev, k + 1, Len(prev))

SortByScore(list, keys) ==
    LET order == SortedPositions(keys, Len(list))
    IN  [k \in 1..Len(list) |-> list[order[k]]]

Truncated_mut_short(description) ==
    IF Len(description) <= DescriptionChars THEN description
    ELSE Slice(description, DescriptionChars) \o Ellipsis

\* description[:300] + "..."
Truncated(description) == Slice(description, DescriptionChars) \o Ellipsis

\* the record find_best_job_match returns for best_match; slicing a missing
\* description (NaN is a float, None is None) raises TypeError
BestMatchRecord(best_match, job_scores) ==
    LET job_data == best_match.job_data
        description == Get(job_data.job_description, <<>>)
    IN  IF description.kind # "str" THEN Raised("TypeError")
        ELSE [job_title |-> job_data.job_title,
              company_name |-> job_data.company_name,
              location |-> job_data.location,
              salary |-> Get(job_data.salary, NotSpecified),
              job_description |-> Truncated(description.s),
              match_score |-> best_match.score,
              matched_skills |-> best_match.matched_skills,
              total_jobs_analyzed |-> Len(job_scores)]

\* [calculate_job_score(job, skill_list) for each of the first n rows]
RECURSIVE ScoreRows(_, _, _)
ScoreRows(skill_list, jobs, n) ==
    IF n = 0 THEN <<>>
    ELSE Append(ScoreRows(skill_list, jobs, n - 1),
                calculate_job_score(jobs[n], skill_list))

\* tools.py 96-107: one entry per row of the table, infos being the rows'
\* score_info
RECURSIVE JobScores(_, _, _)
JobScores(infos, jobs, n) ==
    IF n = 0 THEN <<>>
    ELSE Append(JobScores(infos, jobs, n - 1),
                [index |-> n, score |-> infos[n].score,
                 matched_skills |-> infos[n].matched_skills,
                 job_data |-> jobs[n]])

\* tools.py 109-135, after the loop
BestOfScored(infos, jobs) ==
    LET entries == JobScores(infos, jobs, Len(jobs))
        job_scores ==
            SortByScore(entries, [i \in 1..Len(entries) |-> entries[i].score])
    IN  IF Len(job_scores) = 0 \/ job_scores[1].score = 0
        THEN NoMatchRecord
        ELSE BestMatchRecord(job_scores[1], job_scores)

\* a call of find_best_job_match: what it returns (ret) and the score_info of
\* every calculate_job_score call it makes (scored)
find_best_job_match(skill_list, jobs) ==
    IF EmptyInput(skill_list, jobs)
    THEN [ret |-> NoJobsRecord, scored |-> <<>>]
    ELSE LET infos == ScoreRows(skill_list, jobs, Len(jobs))
         IN  [ret |-> BestOfScored(infos, jobs), scored |-> infos]

\* [skill.lower() for skill in skills]
RECURSIVE LowerAll(_)
LowerAll(skill_list) ==
    IF skill_list = <<>> THEN <<>>
    ELSE <<Lower(Head(skill_list)) \o <<>>>> \o LowerAll(Tail(skill_list))

HasMatch_mut_ge(score_info) == score_info.score >= 0

\* if score_info["score"] > 0
HasMatch(score_info) == score_info.score > 0

\* tools.py 279-292: one record per row with some match, infos being the
\* rows' score_info
RECURSIVE AlternativeRecords(_, _, _)
AlternativeRecords(infos, jobs, n) ==
    IF n = 0 THEN <<>>
    ELSE LET job == jobs[n]
             score_info == infos[n]
             before == AlternativeRecords(infos, jobs, n - 1)
         IN  IF HasMatch(score_info)
             THEN Append(before,
                         [job_title |-> job.job_title,
                          company_name |-> job.company_name,
                          location |-> job.location,
                          salary |-> Get(job.salary, NotSpecified),
                          match_score |-> score_info.score,
                          matched_skills |-> score_info.matched_skills])
             ELSE before

TopN_mut_all(list, n) == list

\* list[:top_n] for top_n >= 0
TopN(list, n) == Slice(list, n)

\* a call of find_alternative_matches: ret and scored as above
find_alternative_matches(skill_list, jobs, n) ==
    IF EmptyInput(skill_list, jobs) THEN [ret |-> <<>>, scored |-> <<>>]
    ELSE LET skills_lower == LowerAll(skill_list)
             infos == ScoreRows(skills_lower, jobs, Len(jobs))
             records == AlternativeRecords(infos, jobs, Len(jobs))
             job_scores ==
                 SortByScore(records,
                             [i \in 1..Len(records) |-> records[i].match_score])
         IN  [ret |-> TopN(job_scores, n), scored |-> infos]

---------------------------------------------------------------------------
(* find_best_job_match and find_alternative_matches, ai_agent.py *)

\* [skill.lower().strip() for skill in skills]
RECURSIVE LowerStripAll(_)
LowerStripAll(skill_list) ==
    IF skill_list = <<>> THEN <<>>
    ELSE <<Strip(Lower(Head(skill_list)) \o <<>>)>> \o LowerStripAll(Tail(skill_list))

AgentNoJobsRecord ==
    [error |-> "No jobs available or no skills provided",
     job_title |-> "No match found", company_name |-> "N/A",
     location |-> "N/A", match_score |-> 0, matched_skills |-> <<>>,
     reasoning |-> "Unable to find matches due to missing data"]

AgentNoMatchRecord ==
    [error |-> "No matching jobs found",
     job_title |-> "No suitable matches", company_name |-> "N/A",
     location |-> "N/A", match_score |-> 0, matched_skills |-> <<>>,
     reasoning |-> "No jobs found that match the extracted skills"]

\* the f-string of a reasoning field: its text and what it interpolates
Reasoning(text, score, matched_skills) ==
    [text |-> text, score |-> score, count |-> Len(matched_skills),
     joined |-> matched_skills]

AgentBestMatchRecord(best_match, job_scores) ==
    LET job_data == best_match.job_data
        description == Get(job_data.job_description, <<>>)
    IN  IF description.kind # "str" THEN Raised("TypeError")
        ELSE [job_title |-> job_data.job_title,
              company_name |-> job_data.company_name,
              location |-> job_data.location,
              salary |-> Get(job_data.salary, NotSpecified),
              job_description |-> Truncated(description.s),
              match_score |-> best_match.score,
              matched_skills |-> best_match.matched_skills,
              total_jobs_analyzed |-> Len(job_scores),
              reasoning |-> Reasoning("This job scored highest",
                                      best_match.score,
                                      best_match.matched_skills)]

RECURSIVE AgentScoreRows(_, _, _)
AgentScoreRows(skill_list, jobs, n) ==
    IF n = 0 THEN <<>>
    ELSE Append(AgentScoreRows(skill_list, jobs, n - 1),
                agent_calculate_job_score(jobs[n], skill_list))

\* ai_agent.py 150-163: one entry per row with some match
RECURSIVE AgentJobScores(_, _, _)
AgentJobScores(infos, jobs, n) ==
    IF n = 0 THEN <<>>
    ELSE LET before == AgentJobScores(infos, jobs, n - 1)
         IN  IF HasMatch(infos[n])
             THEN Append(before,
                         [index |-> n, score |-> infos[n].score,
                          matched_skills |-> infos[n].matched_skills,
                          job_data |-> jobs[n]])
             ELSE before

\* ai_agent.py 165-193, after the loop
AgentBestOfScored(infos, jobs) ==
    LET entries == AgentJobScores(infos, jobs, Len(jobs))
    IN  IF Len(entries) = 0 THEN AgentNoMatchRecord
        ELSE LET job_scores ==
                     SortByScore(entries,
                                 [i \in 1..Len(entries) |-> entries[i].score])
             IN  AgentBestMatchRecord(job_scores[1], job_scores)

agent_find_best_job_match(skill_list, jobs) ==
    IF EmptyInput(skill_list, jobs)
    THEN [ret |-> AgentNoJobsRecord, scored |-> <<>>]
    ELSE LET infos == AgentScoreRows(LowerStripAll(skill_list), jobs, Len(jobs))
         IN  [ret |-> AgentBestOfScored(infos, jobs), scored |-> infos]

RECURSIVE AgentAlternativeRecords(_, _, _)
AgentAlternativeRecords(infos, jobs, n) ==
    IF n = 0 THEN <<>>
    ELSE LET job == jobs[n]
             score_info == infos[n]
             before == AgentAlternativeRecords(infos, jobs, n - 1)
         IN  IF HasMatch(score_info)
             THEN Append(before,
                         [job_title |-> job.job_title,
                          company_name |-> job.company_name,
                          location |-> job.location,
                          salary |-> Get(job.salary, NotSpecified),
                          match_score |-> score_info.score,
                          matched_skills |-> score_info.matched_skills,
                          reasoning |-> Reasoning("Score", score_info.score,
                                                  score_info.matched_skills)])
             ELSE before

agent_find_alternative_matches(skill_list, jobs, n) ==
    IF EmptyInput(skill_list, jobs) THEN [ret |-> <<>>, scored |-> <<>>]
    ELSE LET skills_lower == LowerStripAll(skill_list)
             infos == AgentScoreRows(skills_lower, jobs, Len(jobs))
             records == AgentAlternativeRecords(infos, jobs, Len(jobs))
             job_scores ==
                 SortByScore(records,
                             [i \in 1..Len(records) |-> records[i].match_score])
         IN  [ret |-> TopN(job_scores, n), scored |-> infos]

---------------------------------------------------------------------------
(* get_skill_statistics and get_demand_level.  A percentage is kept in     *)
(* tenths of a percent (287 is 28.7), a quotient as numerator and          *)
(* denominator.                                                            *)

\* the outcome of a call that returned value v (Raised(exc) when it raised)
Returned(v) == [value |-> v]

\* a / b: raises ZeroDivisionError when b is 0
TrueDiv(a, b) ==
    IF b = 0 THEN Raised("ZeroDivisionError") ELSE [num |-> a, den |-> b]

IsRaised(v) == "raised" \in DOMAIN v

\* round(q * 100, 1), in tenths: the nearest tenth, the even one of two
\* equally near (for the quotients of this model the float q * 100 rounds
\* the same way)
RoundTenths(q) ==
    LET n == 1000 * q.num
        f == n \div q.den
        r == n % q.den
    IN  IF 2 * r < q.den THEN f
        ELSE IF 2 * r > q.den THEN f + 1
        ELSE IF f % 2 = 0 THEN f ELSE f + 1

\* the percentage without the total_jobs > 0 test
Percentage_mut_noguard(job_count, total_jobs) ==
    LET q == TrueDiv(job_count, total_jobs)
    IN  IF IsRaised(q) THEN q ELSE [value |-> RoundTenths(q)]

\* round((job_count / total_jobs) * 100, 1) if total_jobs > 0 else 0:
\* [value |-> tenths], or the exception of the division
Percentage(job_count, total_jobs) ==
    IF total_jobs > 0
    THEN LET q == TrueDiv(job_count, total_jobs)
         IN  IF IsRaised(q) THEN q ELSE [value |-> RoundTenths(q)]
    ELSE [value |-> 0]

VeryHighAt == 50
HighAt == 25
MediumAt == 10
LowAt == 5

\* (job_count / total_jobs) * 100 >= threshold, on the unrounded quotient
PercentAtLeast(q, threshold) == 100 * q.num >= threshold * q.den

get_demand_level(job_count, total_jobs) ==
    IF total_jobs = 0 THEN "Unknown"
    ELSE LET q == TrueDiv(job_count, total_jobs)
         IN  IF PercentAtLeast(q, VeryHighAt) THEN "Very High"
             ELSE IF PercentAtLeast(q, HighAt) THEN "High"
             ELSE IF PercentAtLeast(q, MediumAt) THEN "Medium"
             ELSE IF PercentAtLeast(q, LowAt) THEN "Low"
             ELSE "Very Low"

\* the text a skill is looked up in: description first, then title, each
\* lower-cased and followed by a space when the cell holds a string
StatsJobText(job) ==
    (IF notna(job.job_description)
        THEN Lower(job.job_description.s) \o <<" ">> ELSE <<>>)
    \o (IF notna(job.job_title)
        THEN Lower(job.job_title.s) \o <<" ">> ELSE <<>>)

StatsTexts(jobs) == [i \in 1..Len(jobs) |-> StatsJobText(jobs[i])] \o <<>>

\* job_count: the rows whose text contains skill_lower
JobCount(texts, skill_lower) ==
    Cardinality({i \in 1..Len(texts) : Contains(texts[i], skill_lower)})

\* returns the skill_stats dict (keyed by the skill as given), or raises
StatsOf(keys, counts, total_jobs) ==
    LET percentage == [s \in keys |-> Percentage(counts[s], total_jobs)]
    IN  IF \E s \in keys : IsRaised(percentage[s])
        THEN Raised("ZeroDivisionError")
        ELSE Returned([s \in keys |->
                [jobs_mentioning |-> counts[s],
                 percentage |-> percentage[s].value,
                 demand_level |-> get_demand_level(counts[s], total_jobs)]])

\* tools.py: skill_lower = skill.lower()
get_skill_statistics(skill_list, jobs) ==
    LET texts == StatsTexts(jobs)
        keys == {skill_list[i] : i \in 1..Len(skill_list)}
        counts == [s \in keys |-> JobCount(texts, Lower(s))]
    IN  StatsOf(keys, counts, Len(jobs))

\* ai_agent.py: skill_lower = skill.lower().strip()
agent_get_skill_statistics(skill_list, jobs) ==
    LET texts == StatsTexts(jobs)
        keys == {skill_list[i] : i \in 1..Len(skill_list)}
        counts == [s \in keys |-> JobCount(texts, Strip(Lower(s)))]
    IN  StatsOf(keys, counts, Len(jobs))

---------------------------------------------------------------------------
(* Inputs of the scoring specification.  A behaviour is one request: the   *)
(* arguments are chosen, then one operation is called and returns.         *)

s_sql == <<"s","q","l">>
s_sql_sp == <<"s","q","l"," ">>
s_html == <<"h","t","m","l">>
s_aws == <<"a","w","s">>
s_go == <<"g","o">>

ScoreSkillPool == {s_sql, s_sql_sp, s_java, s_html, s_aws, s_go}

\* skills lists: every duplicate-free list of at most MaxSkills pool members,
\* and every list (repeats included) of at most MaxRepeatSkills of them
MaxSkills == 5
MaxRepeatSkills == 3

Row(title, description) ==
    [job_title |-> title, company_name |-> "Acme", location |-> "Remote",
     salary |-> NaN, job_description |-> description]

ScoreJobPool ==
    { Row(Str(<<"J","a","v","a"," ","D","e","v">>),
          Str(<<"H","T","M","L"," ","a","w","s"," ","g","o"," ","S","q","l">>)),
      Row(NaN, Str(<<"s","q","l"," ","g","o">>)),
      Row(Str(<<" ">>), NaN) }

SeqsUpTo(S, n) == UNION {[1..k -> S] : k \in 0..n}

\* the sequences over S without repeats, of length at most n
RECURSIVE DistinctSeqsUpTo(_, _)
DistinctSeqsUpTo(S, n) ==
    IF n = 0 THEN {<<>>}
    ELSE LET shorter == DistinctSeqsUpTo(S, n - 1)
         IN  shorter \cup
             {Append(q, x) : <<q, x>> \in
                 {<<r, y>> \in shorter \X S : \A i \in 1..Len(r) : r[i] # y}}

ScoreSkillLists ==
    DistinctSeqsUpTo(ScoreSkillPool, MaxSkills)
        \cup SeqsUpTo(ScoreSkillPool, MaxRepeatSkills)

NoResult == [none |-> TRUE]

InitScore ==
    /\ jobs_df \in {<<j>> : j \in ScoreJobPool}
    /\ skills \in ScoreSkillLists
    /\ top_n = 0
    /\ op = "none"
    /\ ret = NoResult
    /\ scored = <<>>
    /\ resume_text = <<>>
    /\ service = NoResult
    /\ calls = 0
    /\ KernelUnused
    /\ WidgetUnused

CalculateJobScore ==
    /\ op = "none"
    /\ op' = "calculate_job_score"
    /\ ret' = calculate_job_score(jobs_df[1], skills)
    /\ scored' = <<ret'>>
    /\ UNCHANGED <<jobs_df, skills, top_n, resume_text, service, calls, kernel_vars, widget_vars>>

AgentCalculateJobScore ==
    /\ op = "none"
    /\ op' = "agent_calculate_job_score"
    /\ ret' = agent_calculate_job_score(jobs_df[1], skills)
    /\ scored' = <<ret'>>
    /\ UNCHANGED <<jobs_df, skills, top_n, resume_text, service, calls, kernel_vars, widget_vars>>

NextScore == CalculateJobScore \/ AgentCalculateJobScore

SpecScore == InitScore /\ [][NextScore]_vars

---------------------------------------------------------------------------
(* Inputs of the matching specification *)

s_Java == <<"J","a","v","a">>
s_cobol == <<"c","o","b","o","l">>

MatchSkillLists ==
    { <<>>, <<s_sql>>, <<s_java>>, <<s_java, s_sql>>, <<s_sql, s_java>>,
      <<s_cobol>>, <<s_Java>>, <<s_sql_sp>> }

\* a description of n characters that starts with prefix
LongText(prefix, n) ==
    [i \in 1..n |-> IF i <= Len(prefix) THEN prefix[i] ELSE "x"]

Posting(company, title, salary, description) ==
    [job_title |-> title, company_name |-> company, location |-> "Remote",
     salary |-> salary, job_description |-> description]

\* rows of a table that has a job_description column
MatchJobPool ==
    { Posting("A", Str(<<"J","a","v","a"," ","D","e","v">>),
              Str(<<"1","0","0","k">>),
              Str(<<"s","q","l"," ","a","n","d"," ","j","a","v","a">>)),
      Posting("B", Str(<<"S","Q","L"," ","A","d","m","i","n">>), NaN, NaN),
      Posting("C", Str(<<"C","h","e","f">>), NaN,
              Str(LongText(<<"j","a","v","a"," ">>, DescriptionChars + 1))),
      Posting("D", NaN, Str(<<"9","0","k">>),
              Str(<<"S","Q","L"," ","t","u","n","i","n","g">>)) }

\* rows of a table without job_description and salary columns
BareJobPool ==
    { Posting("E", Str(<<"J","a","v","a">>), Absent, Absent),
      Posting("F", Str(<<"C","o","o","k">>), Absent, Absent) }

MaxJobs == 3
MaxTopN == 3
DefaultTopN == 5

Init ==
    /\ jobs_df \in SeqsUpTo(MatchJobPool, MaxJobs) \cup SeqsUpTo(BareJobPool, MaxJobs)
    /\ skills \in MatchSkillLists
    /\ top_n = DefaultTopN
    /\ op = "none"
    /\ ret = NoResult
    /\ scored = <<>>
    /\ resume_text = <<>>
    /\ service = NoResult
    /\ calls = 0
    /\ KernelUnused
    /\ WidgetUnused

FindBestJobMatch ==
    /\ op = "none"
    /\ op' = "find_best_job_match"
    /\ LET call == find_best_job_match(skills, jobs_df)
       IN  ret' = call.ret /\ scored' = call.scored
    /\ UNCHANGED <<jobs_df, skills, top_n, resume_text, service, calls, kernel_vars, widget_vars>>

FindAlternativeMatches ==
    \E n \in (0..MaxTopN) \cup {DefaultTopN} :
        /\ op = "none"
        /\ op' = "find_alternative_matches"
        /\ top_n' = n
        /\ LET call == find_alternative_matches(skills, jobs_df, n)
           IN  ret' = call.ret /\ scored' = call.scored
        /\ UNCHANGED <<jobs_df, skills, resume_text, service, calls, kernel_vars, widget_vars>>

AgentFindBestJobMatch ==
    /\ op = "none"
    /\ op' = "agent_find_best_job_match"
    /\ LET call == agent_find_best_job_match(skills, jobs_df)
       IN  ret' = call.ret /\ scored' = call.scored
    /\ UNCHANGED <<jobs_df, skills, top_n, resume_text, service, calls, kernel_vars, widget_vars>>

AgentFindAlternativeMatches ==
    \E n \in (0..MaxTopN) \cup {DefaultTopN} :
        /\ op = "none"
        /\ op' = "agent_find_alternative_matches"
        /\ top_n' = n
        /\ LET call == agent_find_alternative_matches(skills, jobs_df, n)
           IN  ret' = call.ret /\ scored' = call.scored
        /\ UNCHANGED <<jobs_df, skills, resume_text, service, calls, kernel_vars, widget_vars>>

Next ==
    \/ FindBestJobMatch
    \/ FindAlternativeMatches
    \/ AgentFindBestJobMatch
    \/ AgentFindAlternativeMatches

Spec == Init /\ [][Next]_vars

---------------------------------------------------------------------------
(* Claims about the matching operations, checked under Spec *)

BestOps == {"find_best_job_match", "agent_find_best_job_match"}
AltOps == {"find_alternative_matches", "agent_find_alternative_matches"}

\* a best-match call returned a match, an error record, or raised
IsMatch == op \in BestOps /\ "total_jobs_analyzed" \in DOMAIN ret
IsError == op \in BestOps /\ "error" \in DOMAIN ret
HasRaised == op \in BestOps /\ "raised" \in DOMAIN ret

\* the rows with score > 0, sc being the score_info of the rows (scored, when
\* the operation scored the table)
Matching(sc) == {i \in 1..Len(sc) : sc[i].score > 0}

\* row i ranks before row j: higher score, or equal score and earlier row
RanksBefore(sc, i, j) ==
    \/ sc[i].score > sc[j].score
    \/ sc[i].score = sc[j].score /\ i < j

\* the row at place k of the ranked list
RankedRow(sc, k) ==
    CHOOSE i \in Matching(sc) :
        Cardinality({j \in Matching(sc) : RanksBefore(sc, j, i)}) = k - 1

IsRecordOf(sc, rec, i) ==
    /\ rec.job_title = jobs_df[i].job_title
    /\ rec.company_name = jobs_df[i].company_name
    /\ rec.location = jobs_df[i].location
    /\ rec.match_score = sc[i].score
    /\ rec.matched_skills = sc[i].matched_skills

Min(a, b) == IF a < b THEN a ELSE b

\* C1: with an empty table or an empty skills list find_best_job_match returns
\* the record with error 'No jobs available or no skills provided',
\* match_score 0 and no matched skills, find_alternative_matches returns the
\* empty list, and no posting is scored.
C1_EmptyInputReported ==
    (op # "none" /\ (Len(jobs_df) = 0 \/ Len(skills) = 0)) =>
        /\ scored = <<>>
        /\ op \in BestOps =>
              /\ IsError
              /\ ret.error = "No jobs available or no skills provided"
              /\ ret.match_score = 0
              /\ ret.matched_skills = <<>>
        /\ op \in AltOps => ret = <<>>

\* a best-match call on an empty table with skills given
C1_Witness ==
    /\ op \in BestOps
    /\ Len(jobs_df) = 0 /\ Len(skills) > 0
    /\ IsError /\ ret.job_title = "No match found"

\* C5: on a non-empty table find_alternative_matches lists the rows with
\* score > 0 by score descending, equal scores in table order (all of them when
\* top_n allows), and find_best_job_match returns the earliest row among those
\* with the maximum score.
C5_RankingOrder ==
    (op # "none" /\ Len(jobs_df) > 0) =>
        LET sc == scored
            q == Cardinality(Matching(sc))
        IN  /\ op \in AltOps =>
                  /\ Len(ret) <= q
                  /\ top_n >= q => Len(ret) = q
                  /\ \A k \in 1..Len(ret) : IsRecordOf(sc, ret[k], RankedRow(sc, k))
            /\ IsMatch =>
                  /\ IsRecordOf(sc, ret, RankedRow(sc, 1))
                  /\ \A j \in 1..Len(jobs_df) :
                        \/ sc[j].score < ret.match_score
                        \/ sc[j].score = ret.match_score /\ RankedRow(sc, 1) <= j

\* three alternatives, the last two with equal scores and from different rows,
\* the first of the table not ranked first
C5_Witness ==
    /\ op \in AltOps
    /\ Len(ret) = 3
    /\ ret[1].match_score > ret[2].match_score
    /\ ret[2].match_score = ret[3].match_score
    /\ ret[2].company_name # ret[3].company_name
    /\ jobs_df[1].company_name = ret[2].company_name

\* C6: a match returned by find_best_job_match reports as total_jobs_analyzed
\* the number of rows with score > 0, in tools.py and in ai_agent.py.
C6_TotalCountsMatchingRows ==
    IsMatch => ret.total_jobs_analyzed = Cardinality(Matching(scored))

\* C7: find_alternative_matches returns the first min(top_n, q) elements of
\* the ranked list, q the number of rows with score > 0: no row with score 0,
\* and the empty list when q = 0.
C7_FirstTopN ==
    op \in AltOps =>
        LET sc == scored
            q == Cardinality(Matching(sc))
        IN  /\ Len(ret) = Min(top_n, q)
            /\ \A k \in 1..Len(ret) :
                  /\ ret[k].match_score > 0
                  /\ IsRecordOf(sc, ret[k], RankedRow(sc, k))
            /\ q = 0 => ret = <<>>

\* top_n cuts the list: three rows match, two are returned
C7_Witness ==
    /\ op \in AltOps
    /\ top_n = 2
    /\ Cardinality(Matching(scored)) = 3
    /\ Len(ret) = 2

\* what the called operation returns for an empty skills list
EmptyInputResult ==
    CASE op = "find_best_job_match" -> find_best_job_match(<<>>, jobs_df).ret
      [] op = "agent_find_best_job_match" ->
            agent_find_best_job_match(<<>>, jobs_df).ret
      [] op = "find_alternative_matches" ->
            find_alternative_matches(<<>>, jobs_df, top_n).ret
      [] op = "agent_find_alternative_matches" ->
            agent_find_alternative_matches(<<>>, jobs_df, top_n).ret

\* C8: with a non-empty table and non-empty skills but no row scoring above 0,
\* each operation returns a not-found result that differs from what it returns
\* for empty input; and find_best_job_match returns its not-found record
\* exactly when no row has score > 0.
C8_NotFoundDistinctFromEmptyInput ==
    (op # "none" /\ Len(jobs_df) > 0 /\ Len(skills) > 0) =>
        LET none == Matching(scored) = {}
        IN  /\ (op \in BestOps /\ none) => IsError
            /\ (none /\ (op \in AltOps => top_n >= 1)) => ret # EmptyInputResult
            /\ op \in BestOps =>
                  ((IsError /\ ret.error = "No matching jobs found") <=> none)

\* C9: with salary or job_description missing in any row, every operation
\* returns a result and none raises, also when the winning row has no
\* description.
C9_MissingFieldsTolerated == op # "none" => ~HasRaised

\* the description of the winning row, empty text for a table without the column
WinningDescription ==
    Get(jobs_df[RankedRow(scored, 1)].job_description, <<>>).s

\* C10: the job_description of a returned best match is the first 300
\* characters of the row's description followed by '...': at most 303
\* characters, a prefix of the description before the marker, the whole
\* description when it has 300 characters or fewer.
C10_DescriptionTruncated ==
    IsMatch =>
        LET d == ret.job_description
            body == SubSeq(d, 1, Len(d) - 3)
            whole == WinningDescription
        IN  /\ Len(d) >= 3 /\ Len(d) <= 303
            /\ SubSeq(d, Len(d) - 2, Len(d)) = <<".", ".", ".">>
            /\ body = SubSeq(whole, 1, Len(body))
            /\ Len(body) = Min(300, Len(whole))

\* a description of more than 300 characters is cut
C10_Witness ==
    /\ IsMatch
    /\ Len(WinningDescription) > 300
    /\ Len(ret.job_description) = 303

---------------------------------------------------------------------------
(* Claims about calculate_job_score, checked under SpecScore *)

Scoring == op \in {"calculate_job_score", "agent_calculate_job_score"}

NoDuplicates(list) ==
    \A i, j \in 1..Len(list) : list[i] = list[j] => i = j

AllLowerCase(list) == \A i \in 1..Len(list) : Lower(list[i]) = list[i]

AllTrimmed(list) == \A i \in 1..Len(list) : Strip(list[i]) = list[i]

\* lower(title) + ' ' + lower(description), a missing field being empty text
TitleSpaceDescription(job) ==
    (IF notna(job.job_title) THEN Lower(job.job_title.s) ELSE <<>>)
    \o <<" ">> \o
    (IF notna(job.job_description) THEN Lower(job.job_description.s) ELSE <<>>)

\* the members of list that are substrings of text, in the order of list
RECURSIVE SubstringsOf(_, _)
SubstringsOf(text, list) ==
    IF list = <<>> THEN <<>>
    ELSE IF Contains(text, Head(list))
         THEN <<Head(list)>> \o SubstringsOf(text, Tail(list))
         ELSE SubstringsOf(text, Tail(list))

StatedWeight(skill) ==
    IF Len(skill) <= 3 THEN 2
    ELSE IF skill \in {s_python, s_javascript, s_java, s_react, s_django} THEN 3
    ELSE 1

RECURSIVE SumOfWeights(_)
SumOfWeights(list) ==
    IF list = <<>> THEN 0
    ELSE StatedWeight(Head(list)) + SumOfWeights(Tail(list))

StatedBonus(n) == (IF n >= 3 THEN 2 ELSE 0) + (IF n >= 5 THEN 3 ELSE 0)

StatedScoring(job) ==
    IF Strip(TitleSpaceDescription(job)) = <<>>
    THEN ret.score = 0 /\ ret.matched_skills = <<>>
    ELSE LET matched == SubstringsOf(TitleSpaceDescription(job), skills)
         IN  /\ ret.matched_skills = matched
             /\ ret.score = SumOfWeights(matched) + StatedBonus(Len(matched))

\* C2 as stated: for every duplicate-free list of lower-case skills the
\* matched skills are the substrings of lower(title) + ' ' + lower(description)
\* in input order, and the score is the sum of the weights (2 for at most 3
\* characters, else 3 for a high-value skill, else 1) plus the bonuses.
C2_AsStated ==
    (Scoring /\ NoDuplicates(skills) /\ AllLowerCase(skills))
        => StatedScoring(jobs_df[1])

\* C2, amended: the same for duplicate-free lists of lower-case skills that
\* have no leading or trailing whitespace.
C2_ScoreOfTrimmedSkills ==
    (Scoring /\ NoDuplicates(skills) /\ AllLowerCase(skills) /\ AllTrimmed(skills))
        => StatedScoring(jobs_df[1])

\* five trimmed skills match: java weighs 3, sql 2, html 1, both bonuses apply
C2_Witness ==
    /\ Scoring
    /\ NoDuplicates(skills) /\ AllLowerCase(skills) /\ AllTrimmed(skills)
    /\ notna(jobs_df[1].job_title) /\ notna(jobs_df[1].job_description)
    /\ InList(s_java, ret.matched_skills)
    /\ InList(s_sql, ret.matched_skills)
    /\ InList(s_html, ret.matched_skills)
    /\ Len(ret.matched_skills) = 5
    /\ ret.score = 15

DistinctCount(list) == Cardinality({list[i] : i \in 1..Len(list)})

\* C3: the bonus (the score less the weights of the matched skills) is +2 only
\* if at least 3 distinct skills matched and +3 more only if at least 5
\* distinct skills matched, for every skills list, repeats included.
C3_BonusCountsDistinctSkills ==
    Scoring =>
        ret.score - SumOfWeights(ret.matched_skills)
            = StatedBonus(DistinctCount(ret.matched_skills))

\* C4: appending one more skill, matching or not, never lowers the score of a
\* posting, and the score is a non-negative integer.
C4_ScoreMonotone ==
    Scoring =>
        /\ ret.score \in Nat
        /\ \A s \in ScoreSkillPool :
              calculate_job_score(jobs_df[1], Append(skills, s)).score >= ret.score

\* one appended skill leaves the score alone, another is the third match and
\* earns the bonus with its weight
C4_Witness ==
    /\ Scoring
    /\ Len(ret.matched_skills) = 2
    /\ \E s \in ScoreSkillPool :
          calculate_job_score(jobs_df[1], Append(skills, s)).score = ret.score
    /\ \E s \in ScoreSkillPool :
          calculate_job_score(jobs_df[1], Append(skills, s)).score >= ret.score + 3

---------------------------------------------------------------------------
(* Inputs of the statistics specification *)

s_SQL == <<"S","Q","L">>
s_sp_sql == <<" ","s","q","l">>
s_machine_learning ==
    <<"m","a","c","h","i","n","e"," ","l","e","a","r","n","i","n","g">>

StatsSkillLists ==
    { <<>>, <<s_sql>>, <<s_sql, s_SQL>>, <<s_sql, s_sp_sql>>, <<s_sql, s_sql>>,
      <<s_machine_learning>>, <<s_java, s_sql>>, <<s_cobol>> }

TuningRow == Row(NaN, Str(<<"S","Q","L"," ","t","u","n","i","n","g">>))
CookRow == Row(Str(<<"C","o","o","k">>), NaN)

\* a table of n rows, of which the first k mention sql
MentionTable(k, n) ==
    [i \in 1..n |-> IF i <= k THEN TuningRow ELSE CookRow] \o <<>>

MaxPostings == 101
MaxMentions == 5

StatsJobPool ==
    { Row(Str(<<"M","a","c","h","i","n","e">>),
          Str(<<"L","e","a","r","n","i","n","g"," ","l","a","b">>)),
      Row(Str(<<"J","a","v","a"," ","D","e","v">>),
          Str(<<"u","s","e","s"," ","s","q","l">>)),
      TuningRow }

MaxStatsJobs == 2

StatsTables ==
    {MentionTable(k, n) : <<k, n>> \in
        {<<a, b>> \in (0..MaxMentions) \X (0..MaxPostings) : a <= b}}
    \cup SeqsUpTo(StatsJobPool, MaxStatsJobs)

InitStats ==
    /\ jobs_df \in StatsTables
    /\ skills \in StatsSkillLists
    /\ top_n = 0
    /\ op = "none"
    /\ ret = NoResult
    /\ scored = <<>>
    /\ resume_text = <<>>
    /\ service = NoResult
    /\ calls = 0
    /\ KernelUnused
    /\ WidgetUnused

GetSkillStatistics ==
    /\ op = "none"
    /\ op' = "get_skill_statistics"
    /\ ret' = get_skill_statistics(skills, jobs_df)
    /\ UNCHANGED <<jobs_df, skills, top_n, scored, resume_text, service, calls, kernel_vars, widget_vars>>

AgentGetSkillStatistics ==
    /\ op = "none"
    /\ op' = "agent_get_skill_statistics"
    /\ ret' = agent_get_skill_statistics(skills, jobs_df)
    /\ UNCHANGED <<jobs_df, skills, top_n, scored, resume_text, service, calls, kernel_vars, widget_vars>>

NextStats == GetSkillStatistics \/ AgentGetSkillStatistics

SpecStats == InitStats /\ [][NextStats]_vars

---------------------------------------------------------------------------
(* Claims about get_skill_statistics, checked under SpecStats *)

StatsOps == {"get_skill_statistics", "agent_get_skill_statistics"}

SkillKeys == {skills[i] : i \in 1..Len(skills)}

\* C11: get_skill_statistics returns (it does not raise) and for each skill
\* 0 <= jobs_mentioning <= number of postings and 0 <= percentage <= 100;
\* with an empty table every skill gets jobs_mentioning 0, percentage 0 and
\* demand_level 'Unknown', no division by the table size being performed.
C11_StatisticsBounded ==
    op \in StatsOps =>
        /\ "value" \in DOMAIN ret
        /\ DOMAIN ret.value = SkillKeys
        /\ \A s \in SkillKeys :
              /\ 0 <= ret.value[s].jobs_mentioning
              /\ ret.value[s].jobs_mentioning <= Len(jobs_df)
              /\ 0 <= ret.value[s].percentage
              /\ ret.value[s].percentage <= 1000
              /\ Len(jobs_df) = 0 =>
                    /\ ret.value[s].jobs_mentioning = 0
                    /\ ret.value[s].percentage = 0
                    /\ ret.value[s].demand_level = "Unknown"

\* statistics were returned for a skill over an empty table
C11_Witness ==
    /\ op \in StatsOps
    /\ Len(jobs_df) = 0
    /\ \E s \in SkillKeys : ret.value[s].demand_level = "Unknown"

\* the bucket of a percentage given in tenths
BucketOf(tenths) ==
    IF tenths >= 10 * VeryHighAt THEN "Very High"
    ELSE IF tenths >= 10 * HighAt THEN "High"
    ELSE IF tenths >= 10 * MediumAt THEN "Medium"
    ELSE IF tenths >= 10 * LowAt THEN "Low"
    ELSE "Very Low"

\* C12: over a non-empty table the demand_level of every skill is the bucket
\* of the percentage reported in the same record: 'Very High' iff it is at
\* least 50, else 'High' iff at least 25, else 'Medium' iff at least 10, else
\* 'Low' iff at least 5, else 'Very Low'.
C12_LevelIsBucketOfReportedPercentage ==
    (op \in StatsOps /\ Len(jobs_df) > 0) =>
        \A s \in SkillKeys :
            ret.value[s].demand_level = BucketOf(ret.value[s].percentage)

HasWhitespace(s) == \E i \in 1..Len(s) : s[i] \in Whitespace

\* the postings whose lower-cased title and description contain text x
Mentioning(x) ==
    {i \in 1..Len(jobs_df) : Contains(TitleSpaceDescription(jobs_df[i]), x)}

\* C13: for every skill s of the input (here: those that are one word once
\* trimmed, which cannot lie across title and description) jobs_mentioning is
\* the number of postings whose lower-cased title and description contain
\* lower(trim(s)), in tools.py as in ai_agent.py; so skills that differ only
\* in letter case or surrounding whitespace get the same count.
C13_CountsLowerTrimmedSkill ==
    op \in StatsOps =>
        /\ \A s \in SkillKeys :
              ~HasWhitespace(Strip(s)) =>
                  ret.value[s].jobs_mentioning
                      = Cardinality(Mentioning(Lower(Strip(s))))
        /\ \A s1, s2 \in SkillKeys :
              Lower(Strip(s1)) = Lower(Strip(s2)) =>
                  ret.value[s1].jobs_mentioning = ret.value[s2].jobs_mentioning

\* the postings for which calculate_job_score lists skill s as matched
ScoredAsMatched(s) ==
    {i \in 1..Len(jobs_df) :
        InList(s, calculate_job_score(jobs_df[i], <<s>>).matched_skills)}

NonBlankPosting(job) == ~Blank(TitleSpaceDescription(job))

\* C20: for postings with a non-blank title or description and a lower-case
\* trimmed skill, the posting is counted in jobs_mentioning for the skill iff
\* calculate_job_score lists the skill in matched_skills for the posting; on
\* a table of such postings jobs_mentioning is the number of postings that
\* calculate_job_score matches.
C20_CountingAgreesWithScoring ==
    ( /\ op \in StatsOps
      /\ \A i \in 1..Len(jobs_df) : NonBlankPosting(jobs_df[i]) ) =>
        \A s \in SkillKeys :
            (Lower(s) = s /\ Strip(s) = s /\ s # <<>>) =>
                ret.value[s].jobs_mentioning = Cardinality(ScoredAsMatched(s))

---------------------------------------------------------------------------
(* ai_agent.py extract_skills_from_resume: the fixed vocabulary *)

common_skills ==
    <<
      <<"p","y","t","h","o","n">>,
      <<"j","a","v","a","s","c","r","i","p","t">>,
      <<"j","a","v","a">>,
      <<"r","e","a","c","t">>,
      <<"d","j","a","n","g","o">>,
      <<"f","l","a","s","k">>,
      <<"n","o","d","e",".","j","s">>,
      <<"s","q","l">>,
      <<"p","o","s","t","g","r","e","s","q","l">>,
      <<"m","y","s","q","l">>,
      <<"m","o","n","g","o","d","b">>,
      <<"a","w","s">>,
      <<"a","z","u","r","e">>,
      <<"d","o","c","k","e","r">>,
      <<"k","u","b","e","r","n","e","t","e","s">>,
      <<"g","i","t">>,
      <<"p","a","n","d","a","s">>,
      <<"n","u","m","p","y">>,
      <<"s","c","i","k","i","t","-","l","e","a","r","n">>,
      <<"t","e","n","s","o","r","f","l","o","w">>,
      <<"p","y","t","o","r","c","h">>,
      <<"h","t","m","l">>,
      <<"c","s","s">>,
      <<"t","y","p","e","s","c","r","i","p","t">>,
      <<"v","u","e",".","j","s">>,
      <<"a","n","g","u","l","a","r">>,
      <<"s","p","r","i","n","g">>,
      <<"e","x","p","r","e","s","s",".","j","s">>,
      <<"r","e","d","i","s">>,
      <<"e","l","a","s","t","i","c","s","e","a","r","c","h">>,
      <<"j","e","n","k","i","n","s">>,
      <<"c","i","/","c","d">>,
      <<"r","e","s","t","f","u","l">>,
      <<"a","p","i">>,
      <<"m","i","c","r","o","s","e","r","v","i","c","e","s">>,
      <<"a","g","i","l","e">>,
      <<"s","c","r","u","m">>,
      <<"m","a","c","h","i","n","e"," ","l","e","a","r","n","i","n","g">>,
      <<"d","a","t","a"," ","a","n","a","l","y","s","i","s">>,
      <<"b","l","o","c","k","c","h","a","i","n">> >>

LowerLetters == {LowerAlpha[i] : i \in 1..26}

\* the upper-case letter of each lower-case letter
LowerToUpper ==
    [c \in LowerLetters |-> UpperAlpha[CHOOSE i \in 1..26 : LowerAlpha[i] = c]]

UpperChar(c) == IF c \in LowerLetters THEN LowerToUpper[c] ELSE c

Cased(c) == c \in LowerLetters \cup UpperLetters

\* str.islower(): some cased character and no upper-case one
IsLower(s) ==
    /\ \E i \in 1..Len(s) : s[i] \in LowerLetters
    /\ \A i \in 1..Len(s) : s[i] \notin UpperLetters

\* str.title(): a cased character is upper-cased after an uncased one (or at
\* the start) and lower-cased after a cased one
Title(s) ==
    [i \in 1..Len(s) |->
        IF i = 1 \/ ~Cased(s[i - 1]) THEN UpperChar(s[i]) ELSE LowerChar(s[i])]
    \o <<>>

\* the vocabulary entry as it is
ProperCase_mut_keep(skill) == skill

\* skill.title() if skill.islower() else skill
ProperCase(skill) == IF IsLower(skill) THEN Title(skill) ELSE skill

\* found_skills after the first n vocabulary entries
RECURSIVE FoundSkills(_, _)
FoundSkills(resume_lower, n) ==
    IF n = 0 THEN <<>>
    ELSE LET found_skills == FoundSkills(resume_lower, n - 1)
         IN  IF Contains(resume_lower, common_skills[n])
             THEN Append(found_skills, ProperCase(common_skills[n]))
             ELSE found_skills

\* list(dict.fromkeys(list)): the first occurrence of each member, in order
RECURSIVE FromKeys(_, _)
FromKeys(list, n) ==
    IF n = 0 THEN <<>>
    ELSE LET unique == FromKeys(list, n - 1)
         IN  IF InList(list[n], unique) THEN unique
             ELSE Append(unique, list[n])

ExtractLimit == 10

agent_extract_skills_from_resume(text) ==
    LET resume_lower == Lower(text) \o <<>>
        found_skills == FoundSkills(resume_lower, Len(common_skills))
        unique_skills == FromKeys(found_skills, Len(found_skills))
    IN  TopN(unique_skills, ExtractLimit)

---------------------------------------------------------------------------
(* validate_resume_text (the same statements in tools.py and ai_agent.py) *)

\* len(s.split()): the maximal runs of non-whitespace characters
WordCount(s) ==
    Cardinality({i \in 1..Len(s) :
        s[i] \notin Whitespace /\ (i = 1 \/ s[i - 1] \in Whitespace)})

ShortBelow == 50
LongAbove == 2000
SectionsNeeded == 2

EmptyIssue == "Resume text is empty"
ShortWarning == "Resume seems quite short - consider adding more detail"
LongWarning == "Resume is very long - extraction might focus on early sections"
SectionsWarning ==
    "Resume might be missing common sections (experience, skills, education)"
TechWarning == "No technical skills detected - results may be limited"

expected_sections ==
    << <<"e","x","p","e","r","i","e","n","c","e">>,
       <<"s","k","i","l","l","s">>,
       <<"e","d","u","c","a","t","i","o","n">>,
       <<"w","o","r","k">> >>

tech_indicators ==
    << <<"p","y","t","h","o","n">>,
       <<"j","a","v","a","s","c","r","i","p","t">>,
       <<"p","r","o","g","r","a","m","m","i","n","g">>,
       <<"s","o","f","t","w","a","r","e">>,
       <<"d","e","v","e","l","o","p","m","e","n","t">>,
       <<"t","e","c","h","n","i","c","a","l">> >>

\* [x for x in list[:n] if x in text]
RECURSIVE FoundIn(_, _, _)
FoundIn(text, list, n) ==
    IF n = 0 THEN <<>>
    ELSE IF Contains(text, list[n])
         THEN Append(FoundIn(text, list, n - 1), list[n])
         ELSE FoundIn(text, list, n - 1)

\* the warning on the word count, as a list of zero or one warnings; the
\* variant tests the two lengths independently, with >= for 'very long'
LengthWarnings_mut_ge(word_count) ==
    (IF word_count < ShortBelow THEN <<ShortWarning>> ELSE <<>>)
    \o (IF word_count >= LongAbove THEN <<LongWarning>> ELSE <<>>)

LengthWarnings(word_count) ==
    IF word_count < ShortBelow THEN <<ShortWarning>>
    ELSE IF word_count > LongAbove THEN <<LongWarning>>
    ELSE <<>>

\* not resume_text or not resume_text.strip(); the variant misses whitespace
EmptyText_mut_len(text) == text = <<>>

EmptyText(text) == text = <<>> \/ Blank(text)

validate_resume_text(text) ==
    IF EmptyText(text)
    THEN [valid |-> FALSE, issues |-> <<EmptyIssue>>, warnings |-> <<>>]
    ELSE LET word_count == WordCount(text)
             resume_lower == Lower(text) \o <<>>
             found_sections ==
                 FoundIn(resume_lower, expected_sections, Len(expected_sections))
             tech_mentions ==
                 Len(FoundIn(resume_lower, tech_indicators, Len(tech_indicators)))
         IN  [valid |-> TRUE,
              word_count |-> word_count,
              sections_found |-> found_sections,
              tech_indicators |-> tech_mentions,
              issues |-> <<>>,
              warnings |->
                  LengthWarnings(word_count)
                  \o (IF Len(found_sections) < SectionsNeeded
                      THEN <<SectionsWarning>> ELSE <<>>)
                  \o (IF tech_mentions = 0 THEN <<TechWarning>> ELSE <<>>)]

agent_validate_resume_text(text) == validate_resume_text(text)

---------------------------------------------------------------------------
(* Inputs of the resume specification: a resume is made of at most         *)
(* MaxChunks pieces, or of one piece filled up with words to a word count  *)
(* next to the limits of the length check.                                 *)

chunk_web ==
    <<"P","y","t","h","o","n"," ","J","a","v","a","S","c","r","i","p","t",
      " ","R","e","a","c","t"," ","D","j","a","n","g","o"," ","F","l","a",
      "s","k"," ","N","o","d","e",".","j","s"," ">>

chunk_data ==
    <<"P","o","s","t","g","r","e","S","Q","L"," ","M","y","S","Q","L"," ",
      "A","W","S"," ","D","o","c","k","e","r"," ","G","i","t","\n">>

chunk_work ==
    <<"W","o","r","k"," ","e","x","p","e","r","i","e","n","c","e",":"," ">>

chunk_education ==
    <<"E","d","u","c","a","t","i","o","n"," ">>

chunk_software ==
    <<"C","h","e","f"," ","a","t"," ","a"," ","s","o","f","t","w","a","r",
      "e"," ","h","o","u","s","e"," ">>

chunk_cook ==
    <<"C","o","o","k"," ">>

chunk_blank ==
    <<" ","\t","\n">>

ChunkPool ==
    { chunk_web, chunk_data, chunk_work, chunk_education, chunk_software,
      chunk_cook, chunk_blank }

MaxChunks == 2

RECURSIVE Concat(_, _)
Concat(pieces, n) ==
    IF n = 0 THEN <<>> ELSE Concat(pieces, n - 1) \o pieces[n]

\* text followed by as many words "x" as make it w words long
FilledTo(text, w) ==
    LET have == WordCount(text)
        more == IF w > have THEN w - have ELSE 0
    IN  text \o [i \in 1..(2 * more) |-> IF i % 2 = 1 THEN "x" ELSE " "]

WordTotals == {ShortBelow - 1, ShortBelow, LongAbove, LongAbove + 1}

ResumeTexts ==
    {Concat(p, Len(p)) : p \in SeqsUpTo(ChunkPool, MaxChunks)}
    \cup {FilledTo(c, w) : <<c, w>> \in (ChunkPool \cup {<<>>}) \X WordTotals}

InitResume ==
    /\ resume_text \in ResumeTexts
    /\ jobs_df = <<>>
    /\ skills = <<>>
    /\ top_n = 0
    /\ op = "none"
    /\ ret = NoResult
    /\ scored = <<>>
    /\ service = NoResult
    /\ calls = 0
    /\ KernelUnused
    /\ WidgetUnused

AgentExtractSkillsFromResume ==
    /\ op = "none"
    /\ op' = "agent_extract_skills_from_resume"
    /\ ret' = Returned(agent_extract_skills_from_resume(resume_text))
    /\ UNCHANGED <<jobs_df, skills, top_n, scored, resume_text, service, calls, kernel_vars, widget_vars>>

ValidateResumeText ==
    /\ op = "none"
    /\ op' = "validate_resume_text"
    /\ ret' = Returned(validate_resume_text(resume_text))
    /\ UNCHANGED <<jobs_df, skills, top_n, scored, resume_text, service, calls, kernel_vars, widget_vars>>

AgentValidateResumeText ==
    /\ op = "none"
    /\ op' = "agent_validate_resume_text"
    /\ ret' = Returned(agent_validate_resume_text(resume_text))
    /\ UNCHANGED <<jobs_df, skills, top_n, scored, resume_text, service, calls, kernel_vars, widget_vars>>

NextResume ==
    \/ AgentExtractSkillsFromResume
    \/ ValidateResumeText
    \/ AgentValidateResumeText

SpecResume == InitResume /\ [][NextResume]_vars

---------------------------------------------------------------------------
(* Claims about the resume operations, checked under SpecResume *)

\* the vocabulary entries that are substrings of the lower-cased resume
InResume ==
    LET resume_lower == Lower(resume_text) \o <<>>
    IN  {i \in 1..Len(common_skills) : Contains(resume_lower, common_skills[i])}

\* the k-th of a set of numbers, in increasing order
Kth(S, k) == CHOOSE i \in S : Cardinality({j \in S : j < i}) = k - 1

\* C14: the fixed-vocabulary extract_skills_from_resume returns at most 10
\* entries without duplicates: the title-cased forms of the first 10
\* vocabulary entries (in vocabulary order) that are substrings of the
\* lower-cased resume text.
C14_FirstTenVocabularyEntries ==
    op = "agent_extract_skills_from_resume" =>
        LET found == InResume
        IN  /\ Len(ret.value) = Min(Cardinality(found), ExtractLimit)
            /\ NoDuplicates(ret.value)
            /\ \A k \in 1..Len(ret.value) :
                  LET entry == common_skills[Kth(found, k)]
                  IN  /\ Lower(ret.value[k]) = entry
                      /\ ret.value[k][1] \in UpperLetters
                      /\ \A i \in 2..Len(entry) :
                            ret.value[k][i] \in UpperLetters
                                <=> (Cased(entry[i]) /\ ~Cased(entry[i - 1]))

\* a resume with more than 10 vocabulary entries, of which 10 are returned
C14_Witness ==
    /\ op = "agent_extract_skills_from_resume"
    /\ Cardinality(InResume) > ExtractLimit
    /\ Len(ret.value) = ExtractLimit

ValidateOps == {"validate_resume_text", "agent_validate_resume_text"}

AllWhitespace(text) == \A i \in 1..Len(text) : text[i] \in Whitespace

\* C17: validate_resume_text returns valid = false exactly when the text is
\* empty or all whitespace, then with the single issue 'Resume text is empty'
\* and no warnings; for every other text valid = true with no issues.
C17_InvalidIffBlank ==
    op \in ValidateOps =>
        /\ ret.value.valid = ~AllWhitespace(resume_text)
        /\ ~ret.value.valid =>
              /\ ret.value.issues = <<"Resume text is empty">>
              /\ ret.value.warnings = <<>>
        /\ ret.value.valid => ret.value.issues = <<>>

\* a text of whitespace only was found invalid
C17_Witness ==
    /\ op \in ValidateOps
    /\ resume_text # <<>>
    /\ AllWhitespace(resume_text)
    /\ ~ret.value.valid

\* the words of a text, counted by their last characters
WordsOf(text) ==
    Cardinality({i \in 1..Len(text) :
        /\ text[i] \notin Whitespace
        /\ (i = Len(text) \/ text[i + 1] \in Whitespace)})

\* how many members of list occur in the lower-cased resume
Occurring(list) ==
    LET resume_lower == Lower(resume_text) \o <<>>
    IN  Cardinality({i \in 1..Len(list) : Contains(resume_lower, list[i])})

Warned(w) == InList(w, ret.value.warnings)

\* C18: for a non-blank text of w words validate_resume_text warns 'short'
\* iff w < 50 and 'very long' iff w > 2000, warns of missing sections iff
\* fewer than 2 of experience, skills, education, work occur in the
\* lower-cased text, warns of no technical skills iff none of python,
\* javascript, programming, software, development, technical occurs, and
\* reports word_count = w.
C18_WarningsAsStated ==
    (op \in ValidateOps /\ ~AllWhitespace(resume_text)) =>
        LET w == WordsOf(resume_text)
        IN  /\ ret.value.word_count = w
            /\ Warned(ShortWarning) <=> w < 50
            /\ Warned(LongWarning) <=> w > 2000
            /\ ~(Warned(ShortWarning) /\ Warned(LongWarning))
            /\ Warned(SectionsWarning) <=> Occurring(expected_sections) < 2
            /\ Warned(TechWarning) <=> Occurring(tech_indicators) = 0

\* a text of more than 2000 words got the 'very long' warning
C18_Witness ==
    /\ op \in ValidateOps
    /\ ~AllWhitespace(resume_text)
    /\ WordsOf(resume_text) > 2000
    /\ Warned(LongWarning)

---------------------------------------------------------------------------
(* tools.py extract_skills_from_resume and safe_extract_skills, and the     *)
(* ai_agent.py entry point analyze_resume_and_find_jobs_sync.  The variable *)
(* service says what agent.run_sync does when it is called.                 *)

\* text.split("\n")
RECURSIVE SplitLines(_)
SplitLines(text) ==
    IF \A i \in 1..Len(text) : text[i] # "\n" THEN <<text>>
    ELSE LET i == CHOOSE k \in 1..Len(text) :
                      /\ text[k] = "\n"
                      /\ \A j \in 1..(k - 1) : text[j] # "\n"
         IN  <<SubSeq(text, 1, i - 1)>>
                 \o SplitLines(SubSeq(text, i + 1, Len(text)))

\* s.strip(chars): without its leading and trailing members of chars
StripChars(s, chars) ==
    IF \A i \in 1..Len(s) : s[i] \in chars THEN <<>>
    ELSE LET lo == CHOOSE i \in 1..Len(s) :
                       /\ s[i] \notin chars
                       /\ \A j \in 1..(i - 1) : s[j] \in chars
             hi == CHOOSE i \in 1..Len(s) :
                       /\ s[i] \notin chars
                       /\ \A j \in (i + 1)..Len(s) : s[j] \in chars
         IN  SubSeq(s, lo, hi)

\* the bullet character U+2022, as one character of a text
BulletChar == "U+2022"

Bullets == {"-", BulletChar, "*"}

\* the condition of the comprehension: skill.strip() and len(skill.strip()) > 1
KeptLine(line) == Strip(line) # <<>> /\ Len(Strip(line)) > 1

\* skill.strip().strip(chars).strip(), chars being dash, bullet and asterisk
CleanLine(line) == Strip(StripChars(Strip(line), Bullets))

\* set(skill.lower() for skill in skills)
UniqueSkills(skills_text) ==
    LET lines == SplitLines(skills_text)
    IN  {Lower(CleanLine(lines[i])) \o <<>> :
            i \in {k \in 1..Len(lines) : KeptLine(lines[k])}}

\* list(unique_skills): the members of the set, in an order Python does not
\* fix (string hashes differ from process to process)
Orderings(S) ==
    {f \in [1..Cardinality(S) -> S] :
        \A i, j \in 1..Cardinality(S) : f[i] = f[j] => i = j}

\* agent.run_sync(prompt) returns the completion or raises
RunSync(outcome) ==
    IF "error" \in DOMAIN outcome THEN Raised(outcome.error)
    ELSE Returned(outcome.output)

\* extract_skills_from_resume(resume_text, n), order being the order in
\* which list() yields the set
extract_skills_from_resume(outcome, order, n) ==
    LET result == RunSync(outcome)
    IN  IF IsRaised(result) THEN result
        ELSE Returned(TopN(order, n))

DefaultExtractTopN == 10

\* the test on the validation result; the variant never stops
Invalid_mut_never(validation) == FALSE

Invalid(validation) == ~validation.valid

\* whether safe_extract_skills gets as far as calling the service
CallsService(text) == ~Invalid(validate_resume_text(text))

safe_extract_skills(text, outcome, order) ==
    LET validation == validate_resume_text(text)
    IN  IF Invalid(validation)
        THEN [success |-> FALSE,
              skills |-> <<>>,
              issues |-> validation.issues,
              warnings |-> validation.warnings]
        ELSE LET extracted ==
                     extract_skills_from_resume(outcome, order, DefaultExtractTopN)
             IN  IF IsRaised(extracted)
                 THEN [success |-> FALSE,
                       skills |-> <<>>,
                       error |-> extracted.raised,
                       issues |-> validation.issues
                           \o <<"Processing error: " \o extracted.raised>>,
                       warnings |-> validation.warnings]
                 ELSE [success |-> TRUE,
                       skills |-> extracted.value,
                       skill_count |-> Len(extracted.value),
                       word_count |-> validation.word_count,
                       issues |-> validation.issues,
                       warnings |-> validation.warnings]

\* analyze_resume_and_find_jobs_sync: the fields success, analysis and error
\* of its result (None is "None")
analyze_resume_and_find_jobs_sync(outcome) ==
    LET result == RunSync(outcome)
    IN  IF IsRaised(result)
        THEN [success |-> FALSE, error |-> result.raised, analysis |-> "None"]
        ELSE [success |-> TRUE, analysis |-> result.value]

---------------------------------------------------------------------------
(* Inputs of the service specification *)

completion_plain ==
    <<"P","y","t","h","o","n","\n","S","Q","L">>

completion_bullets ==
    <<"-"," ","P","y","t","h","o","n","\n","*"," ","G","i","t","\n",
      BulletChar," ","S","Q","L">>

completion_stars ==
    <<"*","*","\n","-"," ","G","o">>

completion_letter ==
    <<"-"," ","a","\n","J","a","v","a">>

completion_repeat ==
    <<"p","y","t","h","o","n","\n"," "," ","P","y","t","h","o","n"," ",
      "\n">>

Completions ==
    { <<>>, completion_plain, completion_bullets, completion_stars,
      completion_letter, completion_repeat }

ServiceOutcomes ==
    {[output |-> c] : c \in Completions}
        \cup {[error |-> "quota exceeded"], [error |-> "connection timed out"]}

ServiceResumes == {<<>>, chunk_blank, chunk_cook, chunk_web \o chunk_work}

InitService ==
    /\ resume_text \in ServiceResumes
    /\ service \in ServiceOutcomes
    /\ jobs_df = <<>>
    /\ skills = <<>>
    /\ top_n = DefaultExtractTopN
    /\ op = "none"
    /\ ret = NoResult
    /\ scored = <<>>
    /\ calls = 0
    /\ KernelUnused
    /\ WidgetUnused

\* the orders list() may give the skills of the completion (one empty order
\* when the service fails)
ServiceOrders ==
    IF "error" \in DOMAIN service THEN {<<>>}
    ELSE Orderings(UniqueSkills(service.output))

ExtractSkillsFromResume ==
    \E n \in (0..MaxTopN) \cup {DefaultExtractTopN} :
        \E order \in ServiceOrders :
            /\ op = "none"
            /\ op' = "extract_skills_from_resume"
            /\ top_n' = n
            /\ calls' = calls + 1
            /\ ret' = extract_skills_from_resume(service, order, n)
            /\ UNCHANGED <<jobs_df, skills, scored, resume_text, service, kernel_vars, widget_vars>>

SafeExtractSkills ==
    \E order \in ServiceOrders :
        /\ op = "none"
        /\ op' = "safe_extract_skills"
        /\ calls' = IF CallsService(resume_text) THEN calls + 1 ELSE calls
        /\ ret' = Returned(safe_extract_skills(resume_text, service, order))
        /\ UNCHANGED <<jobs_df, skills, top_n, scored, resume_text, service, kernel_vars, widget_vars>>

AnalyzeResumeAndFindJobsSync ==
    /\ op = "none"
    /\ op' = "analyze_resume_and_find_jobs_sync"
    /\ calls' = calls + 1
    /\ ret' = Returned(analyze_resume_and_find_jobs_sync(service))
    /\ UNCHANGED <<jobs_df, skills, top_n, scored, resume_text, service, kernel_vars, widget_vars>>

NextService ==
    \/ ExtractSkillsFromResume
    \/ SafeExtractSkills
    \/ AnalyzeResumeAndFindJobsSync

SpecService == InitService /\ [][NextService]_vars

---------------------------------------------------------------------------
(* Claims about the service-backed operations, checked under SpecService *)

ServiceFails == "error" \in DOMAIN service

\* C15: for every completion text and requested count n >= 0 the
\* service-backed extract_skills_from_resume returns at most n skills,
\* pairwise distinct, each lower-cased, free of leading bullet, dash and
\* asterisk characters and of surrounding whitespace, none blank or a
\* single character.
C15_ExtractedSkillsClean ==
    (op = "extract_skills_from_resume" /\ ~ServiceFails) =>
        /\ "value" \in DOMAIN ret
        /\ Len(ret.value) <= top_n
        /\ NoDuplicates(ret.value)
        /\ \A k \in 1..Len(ret.value) :
              LET skill == ret.value[k]
              IN  /\ Lower(skill) = skill
                  /\ Strip(skill) = skill
                  /\ Len(skill) > 1
                  /\ skill[1] \notin Bullets

\* C16: safe_extract_skills always returns a result; when validation fails
\* the service is not called and the result has success = false with the
\* validation issues; when the service call fails the result has
\* success = false, skills = [] and the error message; the service is called
\* at most once.
C16_ServiceFailureContained ==
    op = "safe_extract_skills" =>
        /\ "value" \in DOMAIN ret
        /\ calls <= 1
        /\ AllWhitespace(resume_text) =>
              /\ calls = 0
              /\ ret.value.success = FALSE
              /\ ret.value.issues = <<"Resume text is empty">>
        /\ (~AllWhitespace(resume_text) /\ ServiceFails) =>
              /\ calls = 1
              /\ ret.value.success = FALSE
              /\ ret.value.skills = <<>>
              /\ ret.value.error = service.error
        /\ (~AllWhitespace(resume_text) /\ ~ServiceFails) =>
              /\ calls = 1
              /\ ret.value.success = TRUE

\* the service failed under safe_extract_skills, which reported the failure
C16_Witness ==
    /\ op = "safe_extract_skills"
    /\ ServiceFails
    /\ calls = 1
    /\ ret.value.success = FALSE
    /\ "error" \in DOMAIN ret.value

---------------------------------------------------------------------------
(* Best match against alternatives, checked under Spec *)

SameJob(best, alternative) ==
    /\ best.job_title = alternative.job_title
    /\ best.match_score = alternative.match_score
    /\ best.matched_skills = alternative.matched_skills

\* C19: over a non-empty table, for skills in any letter case,
\* find_best_job_match returns a match iff find_alternative_matches with
\* top_n >= 1 returns a non-empty list, and then job_title, match_score and
\* matched_skills of the best match are those of the first alternative,
\* within tools.py and within ai_agent.py (calls of find_best_job_match that
\* raise are left aside).
C19_BestAgreesWithAlternatives ==
    (op \in BestOps /\ Len(jobs_df) > 0 /\ ~HasRaised) =>
        \A n \in 1..MaxTopN :
            LET alternatives ==
                    IF op = "find_best_job_match"
                    THEN find_alternative_matches(skills, jobs_df, n).ret
                    ELSE agent_find_alternative_matches(skills, jobs_df, n).ret
            IN  /\ IsMatch <=> alternatives # <<>>
                /\ IsMatch => SameJob(ret, alternatives[1])

---------------------------------------------------------------------------
(* 01_module/FixJupyterKernelWin.py.  A file is a list of lines, each a     *)
(* text that ends with its newline.                                         *)

match_phrase ==
    <<"a","s","y","n","c","i","o",".","s","e","t","_","e","v","e","n","t",
      "_","l","o","o","p","_","p","o","l","i","c","y","(","W","i","n","d",
      "o","w","s","S","e","l","e","c","t","o","r","E","v","e","n","t","L",
      "o","o","p","P","o","l","i","c","y">>

\* s.startswith(prefix)
StartsWith(s, prefix) ==
    /\ Len(prefix) <= Len(s)
    /\ \A i \in 1..Len(prefix) : s[i] = prefix[i]

\* match_phrase in line and not line.strip().startswith("#")
ToComment(line, phrase) ==
    Contains(line, phrase) /\ ~StartsWith(Strip(line), <<"#">>)

\* the lines of the file after comment_out_line: "# " before the first line
\* that passes the test, or the lines as they were (nothing is written)
comment_out_line(content, phrase) ==
    IF \E i \in 1..Len(content) : ToComment(content[i], phrase)
    THEN LET i == CHOOSE k \in 1..Len(content) :
                      /\ ToComment(content[k], phrase)
                      /\ \A j \in 1..(k - 1) : ~ToComment(content[j], phrase)
         IN  [content EXCEPT ![i] = <<"#", " ">> \o content[i]]
    ELSE content

line_import ==
    <<"i","m","p","o","r","t"," ","a","s","y","n","c","i","o","\n">>

line_policy ==
    <<"a","s","y","n","c","i","o",".","s","e","t","_","e","v","e","n","t",
      "_","l","o","o","p","_","p","o","l","i","c","y","(","W","i","n","d",
      "o","w","s","S","e","l","e","c","t","o","r","E","v","e","n","t","L",
      "o","o","p","P","o","l","i","c","y","(",")",")","\n">>

line_policy_indented ==
    <<" "," "," "," ","a","s","y","n","c","i","o",".","s","e","t","_","e",
      "v","e","n","t","_","l","o","o","p","_","p","o","l","i","c","y","(",
      "W","i","n","d","o","w","s","S","e","l","e","c","t","o","r","E","v",
      "e","n","t","L","o","o","p","P","o","l","i","c","y","(",")",")","\n">>

line_policy_commented ==
    <<" "," ","#"," ","a","s","y","n","c","i","o",".","s","e","t","_","e",
      "v","e","n","t","_","l","o","o","p","_","p","o","l","i","c","y","(",
      "W","i","n","d","o","w","s","S","e","l","e","c","t","o","r","E","v",
      "e","n","t","L","o","o","p","P","o","l","i","c","y","(",")",")","\n">>

LinePool ==
    {line_import, line_policy, line_policy_indented, line_policy_commented}

MaxLines == 3
MaxRuns == 3

RequestUnused ==
    /\ jobs_df = <<>>
    /\ skills = <<>>
    /\ top_n = 0
    /\ op = "none"
    /\ ret = NoResult
    /\ scored = <<>>
    /\ resume_text = <<>>
    /\ service = NoResult
    /\ calls = 0

InitKernel ==
    /\ kernelapp \in {NoFile} \cup {File(l) : l \in SeqsUpTo(LinePool, MaxLines)}
    /\ backup = NoFile
    /\ original = kernelapp
    /\ runs = 0
    /\ RequestUnused
    /\ WidgetUnused

\* one run of main(): find_kernelapp exits when the file is not there;
\* otherwise shutil.copy writes the backup and comment_out_line patches
Main ==
    /\ runs < MaxRuns
    /\ runs' = runs + 1
    /\ IF kernelapp.exists
       THEN /\ backup' = kernelapp
            /\ kernelapp' = File(comment_out_line(kernelapp.lines, match_phrase))
       ELSE UNCHANGED <<kernelapp, backup>>
    /\ UNCHANGED <<original, request_vars, widget_vars>>

NextKernel == Main

SpecKernel == InitKernel /\ [][NextKernel]_vars

---------------------------------------------------------------------------
(* The claim about the patch script, checked under SpecKernel *)

HasPhrase(line) == Contains(line, match_phrase)

CommentedOut(line) == Strip(line) # <<>> /\ Strip(line)[1] = "#"

\* an unpatched kernelapp.py: the phrase occurs, and on no commented line
Unpatched(file) ==
    /\ file.exists
    /\ \E i \in 1..Len(file.lines) : HasPhrase(file.lines[i])
    /\ \A i \in 1..Len(file.lines) :
          HasPhrase(file.lines[i]) => ~CommentedOut(file.lines[i])

\* the lines with '# ' put before the first line that contains the phrase
FirstLinePrefixed(lines) ==
    LET i == CHOOSE k \in 1..Len(lines) :
                 /\ HasPhrase(lines[k])
                 /\ \A j \in 1..(k - 1) : ~HasPhrase(lines[j])
    IN  [k \in 1..Len(lines) |->
            IF k = i THEN <<"#", " ">> \o lines[k] ELSE lines[k]]

\* C21: after any number of runs of main() on an initially unpatched
\* kernelapp.py the backup still holds the original content, and
\* kernelapp.py differs from the original only by the '# ' prefix on the
\* first line containing the match phrase.
C21_BackupKeepsOriginal ==
    (Unpatched(original) /\ runs >= 1) =>
        /\ backup = original
        /\ kernelapp = File(FirstLinePrefixed(original.lines))

---------------------------------------------------------------------------
(* workshoplib/nbwidgets.py: StartStreamlitAppBtn, StopStreamlitAppBtn and   *)
(* the stop wrapper of StreamlitControlBtn, for one app.  Callbacks run one  *)
(* at a time; between them a Streamlit process may exit.  pgrep succeeds     *)
(* exactly when a Streamlit process of the app is alive.                     *)

Ports == {8501, 8502}

\* _is_streamlit_running(): pgrep found a process
IsStreamlitRunning(processes) == processes > 0

\* the test of _start_streamlit; the variant trusts the flag alone
AlreadyRunning_mut_flag(flag, processes) == flag

\* self.is_running or self._is_streamlit_running()
AlreadyRunning(flag, processes) == flag \/ IsStreamlitRunning(processes)

\* _extract_port_from_logs(): the port of the log's 'Local URL' line, which
\* it also stores in self.port; None (NoPort) without log or without line
ExtractPort(logfile) == IF logfile.exists THEN logfile.url ELSE NoPort

PortAfterExtract(logfile, current) ==
    IF ExtractPort(logfile) # NoPort THEN ExtractPort(logfile) ELSE current

\* what pkill -f may do with the given number of live processes: exit code 0
\* when it signalled some (they exit at once, or later), 1 when none
\* matched, another code when it failed
PkillOutcomes(processes) ==
    IF processes > 0
    THEN {[code |-> 0, alive |-> 0], [code |-> 0, alive |-> processes],
          [code |-> 2, alive |-> processes]}
    ELSE {[code |-> 1, alive |-> processes], [code |-> 2, alive |-> processes]}

\* what _stop_streamlit writes to the output widget
StopReport(code) ==
    IF code = 0 THEN "Streamlit app stopped."
    ELSE IF code = 1 THEN "No Streamlit app was running."
    ELSE "An error occurred"

MaxLaunches == 3

InitWidget ==
    /\ WidgetUnused
    /\ KernelUnused
    /\ RequestUnused

\* a click on Start that finds the app already running
StartAlreadyRunning ==
    /\ AlreadyRunning(is_running, alive)
    /\ port' = PortAfterExtract(log, port)
    /\ report' = IF ExtractPort(log) # NoPort
                 THEN "already running on port" ELSE "already running"
    /\ is_running' = TRUE
    /\ last_start' = [clicked |-> TRUE, launched |-> FALSE,
                      is_running |-> is_running, alive |-> alive]
    /\ UNCHANGED <<alive, log, launches>>

\* a click on Start that issues the launch command, which starts a process
\* in the background and redirects its output to the log
StartLaunched ==
    /\ ~AlreadyRunning(is_running, alive)
    /\ launches < MaxLaunches
    /\ launches' = launches + 1
    /\ last_start' = [clicked |-> TRUE, launched |-> TRUE,
                      is_running |-> is_running, alive |-> alive]
    /\ is_running' = TRUE
    /\ alive' = alive + 1
    /\ \E url \in Ports \cup {NoPort} :
          /\ log' = Log(url)
          /\ port' = PortAfterExtract(Log(url), port)
          /\ report' = IF url # NoPort THEN "Streamlit running on port"
                       ELSE "Could not determine Streamlit port"

\* a click on Start whose launch command raises CalledProcessError
StartFailed ==
    /\ ~AlreadyRunning(is_running, alive)
    /\ launches < MaxLaunches
    /\ launches' = launches + 1
    /\ last_start' = [clicked |-> TRUE, launched |-> TRUE,
                      is_running |-> is_running, alive |-> alive]
    /\ is_running' = FALSE
    /\ report' = "An error occurred"
    /\ UNCHANGED <<alive, log, port>>

\* StartStreamlitAppBtn._start_streamlit
StartClick ==
    /\ (StartAlreadyRunning \/ StartLaunched \/ StartFailed)
    /\ UNCHANGED <<request_vars, kernel_vars>>

\* StopStreamlitAppBtn._stop_streamlit, of a stop button of its own
StopClick ==
    /\ \E outcome \in PkillOutcomes(alive) :
          /\ alive' = outcome.alive
          /\ report' = StopReport(outcome.code)
    /\ UNCHANGED <<is_running, port, log, launches, last_start>>
    /\ UNCHANGED <<request_vars, kernel_vars>>

\* StreamlitControlBtn._stop_streamlit_wrapper
StopWrapperClick ==
    /\ \E outcome \in PkillOutcomes(alive) :
          /\ alive' = outcome.alive
          /\ report' = StopReport(outcome.code)
    /\ is_running' = FALSE
    /\ UNCHANGED <<port, log, launches, last_start>>
    /\ UNCHANGED <<request_vars, kernel_vars>>

\* a Streamlit process exits: it crashed, was killed from outside, or ends
\* after the signal of an earlier pkill
ProcessExit ==
    /\ alive > 0
    /\ alive' = alive - 1
    /\ UNCHANGED <<is_running, port, log, report, launches, last_start>>
    /\ UNCHANGED <<request_vars, kernel_vars>>

NextWidget ==
    \/ StartClick
    \/ StopClick
    \/ StopWrapperClick
    \/ ProcessExit

SpecWidget == InitWidget /\ [][NextWidget]_vars

---------------------------------------------------------------------------
(* Claims about the Streamlit buttons, checked under SpecWidget *)

AlreadyReports == {"already running on port", "already running"}

\* C22: a Start click issues the launch command only when is_running is
\* False and no Streamlit process of the app is detected, so that at most
\* one launched process is alive at any time; a Start click made while one
\* is running issues no launch, reports 'already running' and sets
\* is_running to True.
C22_NoDoubleLaunch ==
    /\ alive <= 1
    /\ last_start.launched =>
          (~last_start.is_running /\ last_start.alive = 0)
    /\ (last_start.clicked /\ last_start.alive > 0) => ~last_start.launched
    /\ report \in AlreadyReports => is_running

\* Start was clicked while the launched process was alive, and was refused
C22_Witness ==
    /\ last_start.clicked
    /\ last_start.alive = 1
    /\ ~last_start.launched
    /\ launches >= 1
    /\ alive = 1
    /\ report \in AlreadyReports

\* C23: a Start click made while no Streamlit process of the app is running
\* issues the launch command; equivalently, between callbacks is_running is
\* True only while a Streamlit process of the app is running.
C23_StartNeverBlocked ==
    /\ (last_start.clicked /\ last_start.alive = 0) => last_start.launched
    /\ is_running => alive > 0

====
